---- MODULE Spec2Model ----
(***************************************************************************)
(* Review approval consensus of app-review (Django): one review, its vote  *)
(* ledger (ReviewApproval rows), the supervisors group, and the request    *)
(* handlers of backend/reviews/views.py running concurrently against a     *)
(* READ COMMITTED database with a row lock on the review                   *)
(* (select_for_update inside transaction.atomic).                          *)
(***************************************************************************)
EXTENDS Integers, FiniteSets, Sequences, Bags, TLC

\* ---------------------------------------------------------------- bounds
NumSup == 3
NumProcs == 2
MaxCalls == 3

\* ----------------------------------------------------------------- users
Author == 0
Pool == 1..NumSup
Admin == NumSup + 1
NoUser == NumSup + 2
Users == {Author} \cup Pool \cup {Admin}

STATUS_CHOICES == {"pending", "approved", "rejected", "conflict"}
DECISION_CHOICES == {"approved", "rejected"}
DecisionInputs == DECISION_CHOICES \cup {"maybe"}
CommentInputs == {"", "c"}

\* the status the model gives the review when its row does not exist
Deleted == "deleted"

VARIABLES
    group,      \* members of the auth Group 'supervisors'
    active,     \* User.is_active as stored in the database
    review,     \* the committed Review row
    ledger,     \* the committed ReviewApproval rows of the review, by created_at
    writeOrder, \* supervisors of the ledger by the time of their last vote write
    lock,       \* TRUE while a transaction holds the row lock of the review
    inflight,   \* the requests being served (a bag): their position and locals
    last,       \* the response returned by the step just taken, if any
    calls,      \* requests started so far
    total_ratings \* App.total_ratings as stored for the app of the review

vars == <<group, active, review, ledger, writeOrder, lock, inflight, last, calls,
          total_ratings>>

\* ------------------------------------------------------------ data model
NewReview ==
    [status |-> "pending", reviewed_by |-> NoUser, reviewed_at |-> FALSE,
     rejection_reason |-> "", admin_override |-> FALSE, original_status |-> ""]

NoRow == [supervisor |-> NoUser, decision |-> "", comments |-> ""]

NoReq ==
    [op |-> "none", pc |-> "", caller |-> NoUser, decision |-> "", comments |-> "",
     is_active |-> FALSE, rv |-> NewReview, tx |-> "none", row |-> NoRow,
     final |-> ""]

NoResult ==
    [op |-> "none", code |-> "none", named |-> "", final |-> "", stage |-> "",
     word |-> "", rating |-> "none", notify |-> "none"]

RECURSIVE SelectRows(_, _)
SelectRows(rows, d) ==
    IF rows = <<>> THEN <<>>
    ELSE IF Head(rows).decision = d
         THEN <<Head(rows)>> \o SelectRows(Tail(rows), d)
         ELSE SelectRows(Tail(rows), d)

\* approvals.filter(decision=d).count()
Count(rows, d) == Len(SelectRows(rows, d))

\* Review.get_approval_summary
get_approval_summary_live(status, rows, grp) ==
    [total_supervisors |-> Cardinality(grp),
     approved |-> Count(rows, "approved"),
     rejected |-> Count(rows, "rejected"),
     pending |-> Cardinality(grp) - Count(rows, "approved") - Count(rows, "rejected")]

get_approval_summary(status, rows, grp) ==
    IF status \in {"approved", "rejected"}
    THEN [total_supervisors |-> 0, approved |-> 0, rejected |-> 0, pending |-> 0]
    ELSE [total_supervisors |-> Cardinality(grp),
          approved |-> Count(rows, "approved"),
          rejected |-> Count(rows, "rejected"),
          pending |-> Cardinality(grp) - Count(rows, "approved") - Count(rows, "rejected")]

\* approvals.filter(decision=d).order_by('-created_at').first(); the rows are
\* kept in created_at order (auto_now_add: set once, when the row is created)
latest(rows, d) ==
    LET S == SelectRows(rows, d)
    IN  IF S = <<>> THEN NoRow ELSE S[Len(S)]

\* validate_supervisor_permissions(user): is_active is the attribute of the
\* request's user object, the group membership is a query
validate_supervisor_permissions_no_group(is_active, grp, u) ==
    IF ~is_active THEN "inactive" ELSE "ok"

validate_supervisor_permissions(is_active, grp, u) ==
    IF ~is_active THEN "inactive"
    ELSE IF u \notin grp THEN "no_privileges"
    ELSE "ok"

\* majority_threshold = summary['total_supervisors'] // 2 + 1
\* required_approvals as review_supervisor_decisions and the serializers
\* report it: computed from the summary of the review
get_required_approvals(status, rows, grp) ==
    (get_approval_summary(status, rows, grp).total_supervisors \div 2) + 1

majority_threshold_rounded_up(total_supervisors) == ((total_supervisors + 1) \div 2) + 1

majority_threshold(total_supervisors) == (total_supervisors \div 2) + 1

\* Review.check_and_finalize_status on the in-memory review rv, with the rows
\* and the group visible to the transaction
check_and_finalize_status_any_tie(rv, rows, grp) ==
    LET summary == get_approval_summary(rv.status, rows, grp)
        threshold == majority_threshold(summary.total_supervisors)
    IN  IF summary.approved >= threshold
        THEN LET la == latest(rows, "approved")
             IN  [final |-> "approved",
                  review |-> [rv EXCEPT !.status = "approved", !.reviewed_at = TRUE,
                                !.reviewed_by =
                                    IF la # NoRow THEN la.supervisor ELSE @]]
        ELSE IF summary.rejected >= threshold
        THEN LET lr == latest(rows, "rejected")
             IN  [final |-> "rejected",
                  review |-> [rv EXCEPT !.status = "rejected", !.reviewed_at = TRUE,
                                !.reviewed_by =
                                    IF lr # NoRow THEN lr.supervisor ELSE @,
                                !.rejection_reason =
                                    IF lr # NoRow /\ lr.comments # ""
                                    THEN lr.comments ELSE @]]
        ELSE IF summary.approved = summary.rejected
        THEN [final |-> "conflict",
              review |-> [rv EXCEPT !.status = "conflict", !.reviewed_at = TRUE]]
        ELSE [final |-> "pending", review |-> rv]

check_and_finalize_status(rv, rows, grp) ==
    LET summary == get_approval_summary(rv.status, rows, grp)
        total_decisions == summary.approved + summary.rejected
        all_voted == total_decisions = summary.total_supervisors
        threshold == majority_threshold(summary.total_supervisors)
    IN  IF summary.approved >= threshold
        THEN LET la == latest(rows, "approved")
             IN  [final |-> "approved",
                  review |-> [rv EXCEPT !.status = "approved", !.reviewed_at = TRUE,
                                !.reviewed_by =
                                    IF la # NoRow THEN la.supervisor ELSE @]]
        ELSE IF summary.rejected >= threshold
        THEN LET lr == latest(rows, "rejected")
             IN  [final |-> "rejected",
                  review |-> [rv EXCEPT !.status = "rejected", !.reviewed_at = TRUE,
                                !.reviewed_by =
                                    IF lr # NoRow THEN lr.supervisor ELSE @,
                                !.rejection_reason =
                                    IF lr # NoRow /\ lr.comments # ""
                                    THEN lr.comments ELSE @]]
        ELSE IF all_voted /\ summary.approved = summary.rejected
        THEN [final |-> "conflict",
              review |-> [rv EXCEPT !.status = "conflict", !.reviewed_at = TRUE]]
        ELSE [final |-> "pending", review |-> rv]

\* ReviewApproval.objects.update_or_create(review=, supervisor=, defaults=):
\* the row of the supervisor is updated in place (created_at unchanged), or a
\* new row is created with created_at = now, after every existing row
Index(rows, u) ==
    IF \E i \in DOMAIN rows : rows[i].supervisor = u
    THEN CHOOSE i \in DOMAIN rows : rows[i].supervisor = u
    ELSE 0

update_or_create_always_creates(rows, u, d, c) ==
    LET row == [supervisor |-> u, decision |-> d, comments |-> c]
    IN  [rows |-> Append(rows, row), created |-> TRUE, row |-> row]

update_or_create(rows, u, d, c) ==
    LET i == Index(rows, u)
        row == [supervisor |-> u, decision |-> d, comments |-> c]
    IN  IF i = 0
        THEN [rows |-> Append(rows, row), created |-> TRUE, row |-> row]
        ELSE [rows |-> [rows EXCEPT ![i] = row], created |-> FALSE, row |-> row]

\* the rows a transaction sees: the committed rows with its own write applied
Visible(r) ==
    IF r.tx = "create" THEN Append(ledger, r.row)
    ELSE IF r.tx = "update"
    THEN [i \in DOMAIN ledger |->
            IF ledger[i].supervisor = r.row.supervisor THEN r.row ELSE ledger[i]]
    ELSE ledger

RECURSIVE Without(_, _)
Without(s, u) ==
    IF s = <<>> THEN <<>>
    ELSE IF Head(s) = u THEN Without(Tail(s), u)
    ELSE <<Head(s)>> \o Without(Tail(s), u)

\* ------------------------------------------------------------------ Init
Init ==
    /\ group \in {1..k : k \in 0..NumSup}
    /\ active = [u \in Users |-> TRUE]
    /\ review = NewReview
    /\ ledger = <<>>
    /\ writeOrder = <<>>
    /\ lock = FALSE
    /\ total_ratings = 0
    /\ inflight = EmptyBag
    /\ last = NoResult
    /\ calls = 0

\* a response: the error class or success, the status the message names, the
\* final_status of a vote, the place in the handler that returned it, and the
\* action word of a vote ("recorded" for a created row, "updated" otherwise)
Res(op, code, named, final, stage) ==
    [op |-> op, code |-> code, named |-> named, final |-> final, stage |-> stage,
     word |-> "", rating |-> "none", notify |-> "none"]

\* App.update_average_rating as a handler sees it: called or not, and when
\* called it writes the app row or raises (a database error while it
\* aggregates or saves)
\* App.get_approved_reviews_count, for the one review of the model
get_approved_reviews_count(rv) == IF rv.status = "approved" THEN 1 ELSE 0

\* App.total_ratings after a handler that has saved the review as rv: it is
\* recomputed only where the handler calls update_average_rating
saved_total_ratings(called, rv) ==
    IF called THEN get_approved_reviews_count(rv) ELSE total_ratings

update_average_rating(called, raises) ==
    IF ~called THEN "none" ELSE IF raises THEN "raised" ELSE "updated"

\* a new request is taken while one of the NumProcs workers is free
Accept ==
    /\ calls < MaxCalls
    /\ calls' = calls + 1
    /\ BagCardinality(inflight) < NumProcs

\* the request is answered by the step that took it
Respond(res) ==
    /\ last' = res
    /\ UNCHANGED inflight

\* the request r goes on after this step
Begin(r) ==
    /\ inflight' = inflight (+) SetToBag({r})
    /\ last' = NoResult

\* the request r goes on as r2
Move(r, r2) ==
    /\ inflight' = (inflight (-) SetToBag({r})) (+) SetToBag({r2})
    /\ last' = NoResult

\* the request r returns res
Finish(r, res) ==
    /\ inflight' = inflight (-) SetToBag({r})
    /\ last' = res

At(r, pc) == r \in BagToSet(inflight) /\ r.pc = pc

\* the same exception with the row lock left behind
Rollback_keeps_lock(r, rating) ==
    /\ Finish(r, [Res(r.op, "error", "", "", "locked") EXCEPT !.rating = rating])
    /\ UNCHANGED <<total_ratings, group, active, review, ledger, writeOrder, lock, calls>>

\* the exception leaves transaction.atomic(): everything the transaction
\* wrote is rolled back, the row lock is released, the handler's
\* "except Exception" answers 500
Rollback(r, rating) ==
    /\ Finish(r, [Res(r.op, "error", "", "", "locked") EXCEPT !.rating = rating])
    /\ lock' = FALSE
    /\ UNCHANGED <<total_ratings, group, active, review, ledger, writeOrder, calls>>

\* ------------------------------------------- supervisor_review_decision
\* authentication loads request.user; first permission check; decision check
VoteStart(u, d, c) ==
    /\ Accept
    /\ d = "rejected" \/ c = ""
    /\ LET perm == validate_supervisor_permissions(active[u], group, u)
       IN  IF perm # "ok"
           THEN Respond(Res("vote", "forbidden", "", "", "check"))
           ELSE IF d \notin DECISION_CHOICES
           THEN Respond(Res("vote", "bad_request", "", "", "check"))
           ELSE Begin([NoReq EXCEPT !.op = "vote", !.pc = "vote_wait", !.caller = u,
                                    !.decision = d, !.comments = c,
                                    !.is_active = active[u]])
    /\ UNCHANGED <<total_ratings, group, active, review, ledger, writeOrder, lock>>

\* get_review_with_lock: select_for_update waits for the row lock
get_review_without_lock(r) == TRUE

get_review_with_lock(r) == ~lock

\* "Double-check permissions inside transaction": the same request.user
\* object is validated again
locked_check_skipped(r) == "ok"

locked_check(r) ==
    validate_supervisor_permissions(r.is_active, group, r.caller)

\* the locked read, the permission re-check and the status check
VoteLock(r) ==
    /\ At(r, "vote_wait")
    /\ get_review_with_lock(r)
    /\ LET perm == locked_check(r)
       IN  IF review.status = Deleted
           THEN /\ Finish(r, Res("vote", "not_found", "", "", "locked"))
                /\ UNCHANGED lock
           ELSE IF perm # "ok"
           THEN /\ Finish(r, Res("vote", "forbidden", "", "", "locked"))
                /\ UNCHANGED lock
           ELSE IF review.status # "pending"
           THEN /\ Finish(r, Res("vote", "invalid_state", review.status, "", "locked"))
                /\ UNCHANGED lock
           ELSE /\ lock' = TRUE
                /\ Move(r, [r EXCEPT !.pc = "vote_locked", !.rv = review])
    /\ UNCHANGED <<total_ratings, group, active, review, ledger, writeOrder, calls>>

\* inside the transaction: update_or_create, then check_and_finalize_status
\* on the rows the transaction sees; nothing is visible to others yet
Decided(r) ==
    LET w == update_or_create(ledger, r.caller, r.decision, r.comments)
        f == check_and_finalize_status(r.rv, w.rows, group)
    IN  [r EXCEPT !.pc = "vote_decided",
                  !.tx = IF w.created THEN "create" ELSE "update",
                  !.row = w.row, !.rv = f.review, !.final = f.final]

VoteDecide(r) ==
    /\ At(r, "vote_locked")
    /\ Move(r, Decided(r))
    /\ UNCHANGED <<total_ratings, group, active, review, ledger, writeOrder, lock, calls>>

\* what can happen to the conflict notification
NotifyOutcomes == {"sent", "no_group", "mail_error"}

\* Review._notify_conflict: its body is one try block whose except logs
notify_conflict_raises(called, outcome) ==
    IF ~called THEN "none" ELSE IF outcome = "sent" THEN "sent" ELSE "raised"

notify_conflict(called, outcome) ==
    IF ~called THEN "none" ELSE IF outcome = "sent" THEN "sent" ELSE "logged"

\* the response, commit and release of the lock; the notification of a
\* conflict is attempted before the commit
VoteCommit(r) ==
    /\ At(r, "vote_decided")
    /\ \E o \in NotifyOutcomes :
         LET n == notify_conflict(r.final = "conflict", o)
         IN  IF n = "raised"
             THEN Rollback(r, "none")
             ELSE /\ review' = IF r.final # "pending" THEN r.rv ELSE review
                  /\ ledger' = Visible(r)
                  /\ writeOrder' = Append(Without(writeOrder, r.caller), r.caller)
                  /\ Finish(r, [Res("vote", "ok", r.rv.status, r.final, "locked")
                                  EXCEPT !.word = IF r.tx = "create"
                                                  THEN "recorded" ELSE "updated",
                                         !.rating = update_average_rating(
                                                        r.final = "approved", FALSE),
                                         !.notify = n])
                  /\ total_ratings' = saved_total_ratings(r.final = "approved", r.rv)
                  /\ lock' = FALSE
                  /\ UNCHANGED <<group, active, calls>>

\* the same exception without the transaction: the vote row already written
\* stays written
VoteRollback_keeps_writes(r) ==
    /\ At(r, "vote_decided")
    /\ r.final = "approved"
    /\ Finish(r, [Res(r.op, "error", "", "", "locked") EXCEPT !.rating = "raised"])
    /\ lock' = FALSE
    /\ ledger' = Visible(r)
    /\ UNCHANGED <<total_ratings, group, active, review, writeOrder, calls>>

\* update_average_rating raises inside check_and_finalize_status
VoteRollback(r) ==
    /\ At(r, "vote_decided")
    /\ r.final = "approved"
    /\ Rollback(r, update_average_rating(TRUE, TRUE))

\* ------------------------------------------------------ review_moderate
\* Review.approve(supervisor) and Review.reject(supervisor, reason)
approve(rv, u) ==
    [rv EXCEPT !.status = "approved", !.reviewed_by = u, !.reviewed_at = TRUE]

reject(rv, u, reason) ==
    [rv EXCEPT !.status = "rejected", !.reviewed_by = u, !.reviewed_at = TRUE,
               !.rejection_reason = IF reason # "" THEN reason ELSE @]

\* permission check, unlocked read of the review, status check, serializer
ModerateStart(u, d, reason) ==
    /\ Accept
    /\ LET perm == validate_supervisor_permissions(active[u], group, u)
       IN  IF perm # "ok"
           THEN Respond(Res("moderate", "forbidden", "", "", "check"))
           ELSE IF review.status = Deleted
           THEN Respond(Res("moderate", "not_found", "", "", "check"))
           ELSE IF review.status # "pending"
           THEN Respond(Res("moderate", "invalid_state", "", "", "check"))
           ELSE IF d = "rejected" /\ reason = ""
           THEN Respond(Res("moderate", "bad_request", "", "", "check"))
           ELSE Begin([NoReq EXCEPT !.op = "moderate", !.pc = "mod_save", !.caller = u,
                                    !.decision = d, !.comments = reason,
                                    !.is_active = active[u], !.rv = review])
    /\ UNCHANGED <<total_ratings, group, active, review, ledger, writeOrder, lock>>

\* review.approve / review.reject: save() writes the whole in-memory row and
\* waits while another transaction holds the row lock
ModerateSave(r) ==
    /\ At(r, "mod_save")
    /\ ~lock
    /\ review' = IF r.decision = "approved"
                 THEN approve(r.rv, r.caller)
                 ELSE reject(r.rv, r.caller, r.comments)
    /\ Finish(r, [Res(r.op, "ok", r.decision, "", "save")
                    EXCEPT !.rating = update_average_rating(r.decision = "approved", FALSE)])
    /\ total_ratings' = saved_total_ratings(r.decision = "approved", review')
    /\ UNCHANGED <<group, active, ledger, writeOrder, lock, calls>>

\* Review.approve outside any transaction: save() has committed when
\* update_average_rating raises, the request ends with an error
ModerateRatingFails(r) ==
    /\ At(r, "mod_save")
    /\ ~lock
    /\ r.decision = "approved"
    /\ review' = approve(r.rv, r.caller)
    /\ Finish(r, [Res(r.op, "error", "", "", "save")
                    EXCEPT !.rating = update_average_rating(TRUE, TRUE)])
    /\ UNCHANGED <<total_ratings, group, active, ledger, writeOrder, lock, calls>>

\* ReviewAdmin.approve_reviews / reject_reviews on the selected review:
\* queryset.filter(status='pending'), then approve / reject by the staff user
AdminActionStart(d) ==
    /\ Accept
    /\ IF review.status # "pending"
       THEN Respond(Res("admin_action", "ok", "", "", "none"))
       ELSE Begin([NoReq EXCEPT !.op = "admin_action", !.pc = "mod_save",
                                !.caller = Admin, !.decision = d,
                                !.comments = IF d = "rejected"
                                             THEN "Rejected via admin" ELSE "",
                                !.is_active = active[Admin], !.rv = review])
    /\ UNCHANGED <<total_ratings, group, active, review, ledger, writeOrder, lock>>

\* ------------------------------------------------ admin_override_review
is_superuser(u) == u = Admin

\* validate_superuser_permissions(user): is_active is read before
\* refresh_from_db, is_superuser after it
validate_superuser_permissions_any_active(is_active, u) ==
    IF ~is_active THEN "inactive"
    ELSE "ok"

validate_superuser_permissions(is_active, u) ==
    IF ~is_active THEN "inactive"
    ELSE IF ~is_superuser(u) THEN "no_privileges"
    ELSE "ok"

OVERRIDE_CHOICES == {"approved", "rejected", "pending"}

OverrideStart(u, ns, reason) ==
    /\ ns = "rejected" \/ reason = ""
    /\ Accept
    /\ LET perm == validate_superuser_permissions(active[u], u)
       IN  IF perm # "ok"
           THEN Respond(Res("override", "forbidden", "", "", "check"))
           ELSE IF ns \notin OVERRIDE_CHOICES
           THEN Respond(Res("override", "bad_request", "", "", "check"))
           ELSE Begin([NoReq EXCEPT !.op = "override", !.pc = "ovr_wait", !.caller = u,
                                    !.decision = ns, !.comments = reason,
                                    !.is_active = active[u]])
    /\ UNCHANGED <<total_ratings, group, active, review, ledger, writeOrder, lock>>

\* the locked read and the permission re-check (is_active was refreshed by
\* the first check, so it is the value of that time)
OverrideLock(r) ==
    /\ At(r, "ovr_wait")
    /\ get_review_with_lock(r)
    /\ LET perm == validate_superuser_permissions(r.is_active, r.caller)
       IN  IF review.status = Deleted
           THEN /\ Finish(r, Res("override", "not_found", "", "", "locked"))
                /\ UNCHANGED lock
           ELSE IF perm # "ok"
           THEN /\ Finish(r, Res("override", "forbidden", "", "", "locked"))
                /\ UNCHANGED lock
           ELSE /\ lock' = TRUE
                /\ Move(r, [r EXCEPT !.pc = "ovr_locked", !.rv = review])
    /\ UNCHANGED <<total_ratings, group, active, review, ledger, writeOrder, calls>>

\* the override itself, save, commit and release of the lock
override_fields_keeps_reviewer(rv, u, ns, reason) ==
    LET r1 == IF ns = "pending"
              THEN [rv EXCEPT !.reviewed_by = NoUser, !.reviewed_at = FALSE,
                              !.rejection_reason = ""]
              ELSE [rv EXCEPT !.reviewed_at = TRUE,
                              !.rejection_reason =
                                  IF ns = "rejected" /\ reason # ""
                                  THEN "Admin Override: c"
                                  ELSE IF ns = "rejected"
                                  THEN "Admin Override: No reason provided"
                                  ELSE @]
    IN  [r1 EXCEPT !.status = ns, !.admin_override = TRUE,
                   !.original_status = rv.status]

override_fields(rv, u, ns, reason) ==
    LET r1 == IF ns = "pending"
              THEN [rv EXCEPT !.reviewed_by = NoUser, !.reviewed_at = FALSE,
                              !.rejection_reason = ""]
              ELSE [rv EXCEPT !.reviewed_by = u, !.reviewed_at = TRUE,
                              !.rejection_reason =
                                  IF ns = "rejected" /\ reason # ""
                                  THEN "Admin Override: c"
                                  ELSE IF ns = "rejected"
                                  THEN "Admin Override: No reason provided"
                                  ELSE @]
    IN  [r1 EXCEPT !.status = ns, !.admin_override = TRUE,
                   !.original_status = rv.status]

OverrideCommit(r) ==
    /\ At(r, "ovr_locked")
    /\ review' = override_fields(r.rv, r.caller, r.decision, r.comments)
    /\ ledger' = IF r.decision = "pending" THEN <<>> ELSE ledger
    /\ writeOrder' = IF r.decision = "pending" THEN <<>> ELSE writeOrder
    /\ Finish(r, [Res("override", "ok", r.decision, "", "locked")
                    EXCEPT !.rating = update_average_rating(r.decision = "approved", FALSE)])
    /\ total_ratings' = saved_total_ratings(r.decision = "approved", review')
    /\ lock' = FALSE
    /\ UNCHANGED <<group, active, calls>>

\* update_average_rating raises after review.save()
OverrideRollback(r) ==
    /\ At(r, "ovr_locked")
    /\ r.decision = "approved"
    /\ Rollback(r, update_average_rating(TRUE, TRUE))

\* ----------------------------------------------------- resolve_conflict
\* first permission check and check of final_decision
ResolveStart(u, d, notes) ==
    /\ d = "rejected" \/ notes = ""
    /\ Accept
    /\ LET perm == validate_superuser_permissions(active[u], u)
       IN  IF perm # "ok"
           THEN Respond(Res("resolve", "forbidden", "", "", "check"))
           ELSE IF d \notin DECISION_CHOICES
           THEN Respond(Res("resolve", "bad_request", "", "", "check"))
           ELSE Begin([NoReq EXCEPT !.op = "resolve", !.pc = "res_wait", !.caller = u,
                                    !.decision = d, !.comments = notes,
                                    !.is_active = active[u]])
    /\ UNCHANGED <<total_ratings, group, active, review, ledger, writeOrder, lock>>

\* "Only allow resolution of conflict status reviews"
resolvable_any_status(status) == TRUE

resolvable(status) == status = "conflict"

\* the locked read, the permission re-check and the status check
ResolveLock(r) ==
    /\ At(r, "res_wait")
    /\ get_review_with_lock(r)
    /\ LET perm == validate_superuser_permissions(r.is_active, r.caller)
       IN  IF review.status = Deleted
           THEN /\ Finish(r, Res("resolve", "not_found", "", "", "locked"))
                /\ UNCHANGED lock
           ELSE IF perm # "ok"
           THEN /\ Finish(r, Res("resolve", "forbidden", "", "", "locked"))
                /\ UNCHANGED lock
           ELSE IF ~resolvable(review.status)
           THEN /\ Finish(r, Res("resolve", "invalid_state", review.status, "", "locked"))
                /\ UNCHANGED lock
           ELSE /\ lock' = TRUE
                /\ Move(r, [r EXCEPT !.pc = "res_locked", !.rv = review])
    /\ UNCHANGED <<total_ratings, group, active, review, ledger, writeOrder, calls>>

\* the fields resolve_conflict sets on the review it read under the lock
resolve_fields(rv, u, d, notes) ==
    [rv EXCEPT !.status = d, !.reviewed_by = u, !.reviewed_at = TRUE,
               !.rejection_reason = IF notes # "" /\ d = "rejected"
                                    THEN "Conflict Resolution: c" ELSE @]

\* the rows of the review after resolve_conflict: it writes no ReviewApproval
resolve_rows_cleared(rows) == <<>>

resolve_rows(rows) == rows

\* save, commit and release of the lock
ResolveCommit(r) ==
    /\ At(r, "res_locked")
    /\ review' = resolve_fields(r.rv, r.caller, r.decision, r.comments)
    /\ ledger' = resolve_rows(ledger)
    /\ UNCHANGED writeOrder
    /\ Finish(r, [Res("resolve", "ok", r.decision, r.decision, "locked")
                    EXCEPT !.rating = update_average_rating(r.decision = "approved", FALSE)])
    /\ total_ratings' = saved_total_ratings(r.decision = "approved", review')
    /\ lock' = FALSE
    /\ UNCHANGED <<group, active, calls>>

\* update_average_rating raises after review.save()
ResolveRollback(r) ==
    /\ At(r, "res_locked")
    /\ r.decision = "approved"
    /\ Rollback(r, update_average_rating(TRUE, TRUE))

\* -------------------------------------------------- review_detail (PUT)
\* Review.objects.get without a lock, the two permission checks
EditStart(u) ==
    /\ Accept
    /\ IF review.status = Deleted
       THEN Respond(Res("edit", "not_found", "", "", "check"))
       ELSE IF u # Author
       THEN Respond(Res("edit", "forbidden", "", "", "check"))
       ELSE Begin([NoReq EXCEPT !.op = "edit", !.caller = u, !.is_active = active[u],
                                !.rv = review,
                                !.pc = IF review.status \in DECISION_CHOICES
                                       THEN "edit_clear" ELSE "edit_save"])
    /\ UNCHANGED <<total_ratings, group, active, review, ledger, writeOrder, lock>>

\* a vote transaction that has updated a ReviewApproval row holds that row
RowHeld == \E q \in BagToSet(inflight) : q.pc = "vote_decided" /\ q.tx = "update"

\* Review.clear_supervisor_approvals: the committed rows are deleted (an
\* uncommitted insert of a vote transaction is not seen)
clear_supervisor_approvals_skipped(rows) == rows

clear_supervisor_approvals(rows) == <<>>

\* ReviewUpdateSerializer.update on an approved or rejected instance, up to
\* the deletion of the votes
EditClear(r) ==
    /\ At(r, "edit_clear")
    /\ ~RowHeld
    /\ ledger' = clear_supervisor_approvals(ledger)
    /\ writeOrder' = <<>>
    /\ Move(r, [r EXCEPT !.pc = "edit_save"])
    /\ UNCHANGED <<total_ratings, group, active, review, lock, calls>>

\* the fields ReviewUpdateSerializer.update sets on the instance it was given
update_fields(rv) ==
    IF rv.status \in DECISION_CHOICES
    THEN [rv EXCEPT !.status = "pending", !.reviewed_by = NoUser,
                    !.reviewed_at = FALSE, !.rejection_reason = ""]
    ELSE rv

\* instance.save(): the whole in-memory row is written; it waits while a
\* transaction holds the row lock
EditSave(r) ==
    /\ At(r, "edit_save")
    /\ ~lock
    /\ review' = update_fields(r.rv)
    /\ Finish(r, Res("edit", "ok", update_fields(r.rv).status, "", "save"))
    /\ UNCHANGED <<total_ratings, group, active, ledger, writeOrder, lock, calls>>

\* ----------------------------------------------- review_detail (DELETE)
\* Review.objects.get without a lock, the permission and status checks
DeleteStart(u) ==
    /\ Accept
    /\ IF review.status = Deleted
       THEN Respond(Res("delete", "not_found", "", "", "check"))
       ELSE IF u # Author
       THEN Respond(Res("delete", "forbidden", "", "", "check"))
       ELSE IF review.status # "pending"
       THEN Respond(Res("delete", "invalid_state", "", "", "check"))
       ELSE Begin([NoReq EXCEPT !.op = "delete", !.pc = "del_exec", !.caller = u,
                                !.is_active = active[u], !.rv = review])
    /\ UNCHANGED <<total_ratings, group, active, review, ledger, writeOrder, lock>>

\* review.delete(): the row and, by cascade, its ReviewApproval rows; it
\* waits while a transaction holds the row lock
DeleteExec(r) ==
    /\ At(r, "del_exec")
    /\ ~lock
    /\ review' = [NewReview EXCEPT !.status = Deleted]
    /\ ledger' = <<>>
    /\ writeOrder' = <<>>
    /\ Finish(r, Res("delete", "ok", "", "", "save"))
    /\ UNCHANGED <<total_ratings, group, active, lock, calls>>

\* ------------------------------------------- ReviewAdmin.mark_pending
\* queryset.update(status='pending', reviewed_by=None, reviewed_at=None) on
\* the selected review, one UPDATE statement
mark_pending ==
    /\ calls < MaxCalls
    /\ calls' = calls + 1
    /\ ~lock
    /\ review.status # Deleted
    /\ review' = [review EXCEPT !.status = "pending", !.reviewed_by = NoUser,
                                !.reviewed_at = FALSE]
    /\ last' = Res("mark_pending", "ok", "pending", "", "none")
    /\ UNCHANGED <<total_ratings, group, active, ledger, writeOrder, lock, inflight>>

\* ------------------------------------------------- roster and accounts
\* a request of the superuser that is served in one step
AdminCall ==
    /\ calls < MaxCalls
    /\ calls' = calls + 1
    /\ last' = NoResult
    /\ UNCHANGED <<total_ratings, review, ledger, writeOrder, lock, inflight>>

\* SupervisorPromotionSerializer.create by a superuser
promote_to_supervisor(u) ==
    /\ AdminCall
    /\ u \in Pool \ group
    /\ group' = group \cup {u}
    /\ UNCHANGED active

revoke_supervisor_drops_votes(u) ==
    /\ calls < MaxCalls
    /\ calls' = calls + 1
    /\ last' = NoResult
    /\ u \in group
    /\ group' = group \ {u}
    /\ ledger' = LET i == Index(ledger, u)
                 IN  IF i = 0 THEN ledger
                     ELSE SubSeq(ledger, 1, i - 1) \o SubSeq(ledger, i + 1, Len(ledger))
    /\ UNCHANGED <<total_ratings, active, review, writeOrder, lock, inflight>>

\* revoke_supervisor by a superuser: user.groups.remove(supervisors_group)
revoke_supervisor(u) ==
    /\ AdminCall
    /\ u \in group
    /\ group' = group \ {u}
    /\ UNCHANGED active

\* the is_active checkbox of the user admin, unticked
DeactivateUser(u) ==
    /\ AdminCall
    /\ active[u]
    /\ active' = [active EXCEPT ![u] = FALSE]
    /\ UNCHANGED group

Next ==
    \/ \E u \in Pool \cup {Author}, d \in DecisionInputs, c \in CommentInputs :
          VoteStart(u, d, c)
    \/ \E r \in BagToSet(inflight) : VoteLock(r)
    \/ \E r \in BagToSet(inflight) : VoteDecide(r)
    \/ \E r \in BagToSet(inflight) : VoteCommit(r)
    \/ \E r \in BagToSet(inflight) : VoteRollback(r)
    \/ \E u \in Pool \cup {Author}, d \in DECISION_CHOICES, c \in CommentInputs :
          ModerateStart(u, d, c)
    \/ \E r \in BagToSet(inflight) : ModerateSave(r)
    \/ \E r \in BagToSet(inflight) : ModerateRatingFails(r)
    \/ \E d \in DECISION_CHOICES : AdminActionStart(d)
    \/ \E u \in {Admin, 1}, ns \in OVERRIDE_CHOICES \cup {"conflict"},
          c \in CommentInputs : OverrideStart(u, ns, c)
    \/ \E r \in BagToSet(inflight) : OverrideLock(r)
    \/ \E r \in BagToSet(inflight) : OverrideCommit(r)
    \/ \E r \in BagToSet(inflight) : OverrideRollback(r)
    \/ \E u \in {Admin, 1}, d \in DecisionInputs, c \in CommentInputs :
          ResolveStart(u, d, c)
    \/ \E r \in BagToSet(inflight) : ResolveLock(r)
    \/ \E r \in BagToSet(inflight) : ResolveCommit(r)
    \/ \E r \in BagToSet(inflight) : ResolveRollback(r)
    \/ \E u \in {Author, 1} : EditStart(u)
    \/ \E r \in BagToSet(inflight) : EditClear(r)
    \/ \E r \in BagToSet(inflight) : EditSave(r)
    \/ \E u \in {Author, 1} : DeleteStart(u)
    \/ \E r \in BagToSet(inflight) : DeleteExec(r)
    \/ mark_pending
    \/ \E u \in Pool : promote_to_supervisor(u)
    \/ \E u \in Pool : revoke_supervisor(u)
    \/ \E u \in Pool : DeactivateUser(u)

Spec == Init /\ [][Next]_vars

\* the specifications below, SpecFault excepted, run against a database that
\* answers every statement; Spec and SpecFault add its failures

\* the voting path alone, under roster and account changes
NextVote ==
    \/ \E u \in Pool \cup {Author}, d \in DecisionInputs, c \in CommentInputs :
          VoteStart(u, d, c)
    \/ \E r \in BagToSet(inflight) : VoteLock(r)
    \/ \E r \in BagToSet(inflight) : VoteDecide(r)
    \/ \E r \in BagToSet(inflight) : VoteCommit(r)
    \/ \E u \in Pool : promote_to_supervisor(u)
    \/ \E u \in Pool : revoke_supervisor(u)
    \/ \E u \in Pool : DeactivateUser(u)

SpecVote == Init /\ [][NextVote]_vars

\* the voting path alone, the roster and the accounts unchanged
NextBallot ==
    \/ \E u \in Pool \cup {Author}, d \in DecisionInputs, c \in CommentInputs :
          VoteStart(u, d, c)
    \/ \E r \in BagToSet(inflight) : VoteLock(r)
    \/ \E r \in BagToSet(inflight) : VoteDecide(r)
    \/ \E r \in BagToSet(inflight) : VoteCommit(r)

SpecBallot == Init /\ [][NextBallot]_vars

\* votes, overrides and conflict resolutions on one review, the roster unchanged
NextArbiter ==
    \/ \E u \in Pool, d \in DECISION_CHOICES : VoteStart(u, d, "")
    \/ \E r \in BagToSet(inflight) : VoteLock(r)
    \/ \E r \in BagToSet(inflight) : VoteDecide(r)
    \/ \E r \in BagToSet(inflight) : VoteCommit(r)
    \/ \E u \in {Admin, 1}, ns \in OVERRIDE_CHOICES \cup {"conflict"},
          c \in CommentInputs : OverrideStart(u, ns, c)
    \/ \E r \in BagToSet(inflight) : OverrideLock(r)
    \/ \E r \in BagToSet(inflight) : OverrideCommit(r)
    \/ \E u \in {Admin, 1}, d \in DecisionInputs, c \in CommentInputs :
          ResolveStart(u, d, c)
    \/ \E r \in BagToSet(inflight) : ResolveLock(r)
    \/ \E r \in BagToSet(inflight) : ResolveCommit(r)

SpecArbiter == Init /\ [][NextArbiter]_vars

\* the locked handlers against a database that may fail while the app's
\* rating is updated
NextFault ==
    \/ NextArbiter
    \/ \E r \in BagToSet(inflight) : VoteRollback(r)
    \/ \E r \in BagToSet(inflight) : OverrideRollback(r)
    \/ \E r \in BagToSet(inflight) : ResolveRollback(r)

SpecFault == Init /\ [][NextFault]_vars

\* a step of a request in progress
Progress ==
    \E r \in BagToSet(inflight) :
        \/ VoteLock(r) \/ VoteDecide(r) \/ VoteCommit(r) \/ VoteRollback(r)
        \/ OverrideLock(r) \/ OverrideCommit(r) \/ OverrideRollback(r)
        \/ ResolveLock(r) \/ ResolveCommit(r) \/ ResolveRollback(r)

\* the calls that go as far as the row lock
NextLive ==
    \/ \E u \in Pool, d \in DECISION_CHOICES : VoteStart(u, d, "")
    \/ \E ns \in {"approved", "pending"} : OverrideStart(Admin, ns, "")
    \/ \E d \in DECISION_CHOICES : ResolveStart(Admin, d, "")
    \/ Progress

\* the workers keep serving the requests they have taken, and the database
\* grants a free row lock to a request that waits for it
SpecLive == Init /\ [][NextLive]_vars /\ WF_vars(Progress)

\* votes on a new review by the supervisors of a fixed group, some of whose
\* members the user admin has deactivated before; every request taken is
\* served to its end
InitQuorum ==
    /\ group \in {1..k : k \in 1..NumSup}
    /\ active \in {f \in [Users -> BOOLEAN] : f[Author] /\ f[Admin]}
    /\ review = NewReview
    /\ ledger = <<>>
    /\ writeOrder = <<>>
    /\ lock = FALSE
    /\ total_ratings = 0
    /\ inflight = EmptyBag
    /\ last = NoResult
    /\ calls = 0

VoteProgress ==
    \E r \in BagToSet(inflight) : VoteLock(r) \/ VoteDecide(r) \/ VoteCommit(r)

NextQuorum ==
    \/ \E u \in Pool, d \in DECISION_CHOICES : VoteStart(u, d, "")
    \/ VoteProgress

SpecQuorum == InitQuorum /\ [][NextQuorum]_vars /\ WF_vars(VoteProgress)

\* the scenario of N concurrent votes: N distinct supervisors of an unchanged
\* roster of size R, N = R \div 2 + 1, have passed the first check with the
\* same decision on a pending review without votes
Threshold(n) == (n \div 2) + 1

InitC2 ==
    /\ group \in {1..k : k \in 1..NumSup}
    /\ Threshold(Cardinality(group)) <= NumProcs
    /\ active = [u \in Users |-> TRUE]
    /\ review = NewReview
    /\ ledger = <<>>
    /\ writeOrder = <<>>
    /\ lock = FALSE
    /\ total_ratings = 0
    /\ \E d \in DECISION_CHOICES, c \in CommentInputs, who \in SUBSET group :
            /\ Cardinality(who) = Threshold(Cardinality(group))
            /\ d = "rejected" \/ c = ""
            /\ inflight = SetToBag({[NoReq EXCEPT !.op = "vote", !.pc = "vote_wait",
                                                  !.caller = u, !.decision = d,
                                                  !.comments = c, !.is_active = TRUE]
                                    : u \in who})
    /\ last = NoResult
    /\ calls = Threshold(Cardinality(group))

NextC2 ==
    \/ \E r \in BagToSet(inflight) : VoteLock(r)
    \/ \E r \in BagToSet(inflight) : VoteDecide(r)
    \/ \E r \in BagToSet(inflight) : VoteCommit(r)

SpecC2 == InitC2 /\ [][NextC2]_vars

\* a review that a majority of the roster has just decided by its votes, then
\* edits, resets, overrides and votes
InitReopen ==
    /\ group \in {1..k : k \in 1..NumSup}
    /\ active = [u \in Users |-> TRUE]
    /\ \E d \in DECISION_CHOICES :
          /\ ledger = [i \in 1..Threshold(Cardinality(group)) |->
                         [supervisor |-> i, decision |-> d, comments |-> ""]]
          /\ review = check_and_finalize_status(NewReview, ledger, group).review
    /\ writeOrder = [i \in 1..Threshold(Cardinality(group)) |-> i]
    /\ lock = FALSE
    /\ total_ratings = get_approved_reviews_count(review)
    /\ inflight = EmptyBag
    /\ last = NoResult
    /\ calls = 0

NextReopen ==
    \/ \E u \in {Author, 1} : EditStart(u)
    \/ \E r \in BagToSet(inflight) : EditClear(r)
    \/ \E r \in BagToSet(inflight) : EditSave(r)
    \/ \E u \in Pool, d \in DECISION_CHOICES : VoteStart(u, d, "")
    \/ \E r \in BagToSet(inflight) : VoteLock(r)
    \/ \E r \in BagToSet(inflight) : VoteDecide(r)
    \/ \E r \in BagToSet(inflight) : VoteCommit(r)
    \/ \E ns \in OVERRIDE_CHOICES : OverrideStart(Admin, ns, "")
    \/ \E r \in BagToSet(inflight) : OverrideLock(r)
    \/ \E r \in BagToSet(inflight) : OverrideCommit(r)
    \/ mark_pending

SpecReopen == InitReopen /\ [][NextReopen]_vars

\* check_and_finalize_status when an edit deletes the committed votes between
\* the count queries of get_approval_summary and the query for the latest
\* vote: under READ COMMITTED each statement of the vote transaction sees
\* what is committed when it starts. counted are the rows of the first
\* queries, later the rows of the last one.
check_and_finalize_status_at(rv, counted, later, grp) ==
    LET summary == get_approval_summary(rv.status, counted, grp)
        total_decisions == summary.approved + summary.rejected
        all_voted == total_decisions = summary.total_supervisors
        threshold == majority_threshold(summary.total_supervisors)
    IN  IF summary.approved >= threshold
        THEN LET la == latest(later, "approved")
             IN  [final |-> "approved",
                  review |-> [rv EXCEPT !.status = "approved", !.reviewed_at = TRUE,
                                !.reviewed_by =
                                    IF la # NoRow THEN la.supervisor ELSE @]]
        ELSE IF summary.rejected >= threshold
        THEN LET lr == latest(later, "rejected")
             IN  [final |-> "rejected",
                  review |-> [rv EXCEPT !.status = "rejected", !.reviewed_at = TRUE,
                                !.reviewed_by =
                                    IF lr # NoRow THEN lr.supervisor ELSE @,
                                !.rejection_reason =
                                    IF lr # NoRow /\ lr.comments # ""
                                    THEN lr.comments ELSE @]]
        ELSE IF all_voted /\ summary.approved = summary.rejected
        THEN [final |-> "conflict",
              review |-> [rv EXCEPT !.status = "conflict", !.reviewed_at = TRUE]]
        ELSE [final |-> "pending", review |-> rv]

\* VoteDecide of the vote r with the DELETE of the edit e (EditClear) between
\* the statements of check_and_finalize_status. The vote's own row is a fresh
\* insert: the DELETE does not see it and does not wait for it.
VoteDecideCleared(r, e) ==
    /\ At(r, "vote_locked")
    /\ At(e, "edit_clear")
    /\ Index(ledger, r.caller) = 0
    /\ LET w == update_or_create(ledger, r.caller, r.decision, r.comments)
           f == check_and_finalize_status_at(r.rv, w.rows, <<w.row>>, group)
       IN  inflight' = (inflight (-) SetToBag({r}) (-) SetToBag({e}))
                          (+) SetToBag({[r EXCEPT !.pc = "vote_decided",
                                                  !.tx = "create", !.row = w.row,
                                                  !.rv = f.review, !.final = f.final]})
                          (+) SetToBag({[e EXCEPT !.pc = "edit_save"]})
    /\ ledger' = clear_supervisor_approvals(ledger)
    /\ writeOrder' = <<>>
    /\ last' = NoResult
    /\ UNCHANGED <<total_ratings, group, active, review, lock, calls>>

\* SpecReopen with the statements of a vote's evaluation and of an edit
\* interleaved
NextRace ==
    \/ NextReopen
    \/ \E r, e \in BagToSet(inflight) : VoteDecideCleared(r, e)

SpecRace == InitReopen /\ [][NextRace]_vars

\* a review that a complete vote of an even roster has just left in conflict
\* by a tie, then the same operations
InitTied ==
    /\ group \in {1..(2 * k) : k \in 1..(NumSup \div 2)}
    /\ active = [u \in Users |-> TRUE]
    /\ ledger = [i \in 1..Cardinality(group) |->
                   [supervisor |-> i,
                    decision |-> IF 2 * i <= Cardinality(group)
                                 THEN "approved" ELSE "rejected",
                    comments |-> ""]]
    /\ review = check_and_finalize_status(NewReview, ledger, group).review
    /\ writeOrder = [i \in 1..Cardinality(group) |-> i]
    /\ lock = FALSE
    /\ total_ratings = 0
    /\ inflight = EmptyBag
    /\ last = NoResult
    /\ calls = 0

SpecTied == InitTied /\ [][NextReopen]_vars

\* ---------------------------------------------------------------- claims
AllIdle == inflight = EmptyBag

Returned(r) == BagCardinality(inflight') = BagCardinality(inflight) - 1

Unique(rows) ==
    \A i, j \in DOMAIN rows : rows[i].supervisor = rows[j].supervisor => i = j

\* C1: once a vote makes the approving entries reach N \div 2 + 1 the review is
\* approved, and every later vote attempt of a supervisor on it is rejected with
\* InvalidState and leaves the review approved and the ledger as it was.
C1_ApprovedIsFinal ==
    [][/\ \A r \in BagToSet(inflight) :
            /\ (VoteDecide(r)
                  /\ Count(Visible(Decided(r)), "approved") >= Threshold(Cardinality(group)))
               => (Decided(r).final = "approved" /\ Decided(r).rv.status = "approved")
            /\ (VoteCommit(r) /\ r.final = "approved")
               => (review'.status = "approved" /\ ledger' = Visible(r))
            /\ (review.status = "approved" /\ r.caller \in group /\ VoteLock(r))
               => (last'.code = "invalid_state" /\ Returned(r))
            /\ (review.status = "approved" /\ (VoteLock(r) \/ VoteDecide(r) \/ VoteCommit(r)))
               => (review' = review /\ ledger' = ledger)
       /\ \A u \in Users, d \in DecisionInputs, c \in CommentInputs :
            (review.status = "approved" /\ VoteStart(u, d, c))
            => (review' = review /\ ledger' = ledger)
      ]_vars

C1_Witness ==
    /\ last.op = "vote" /\ last.code = "invalid_state" /\ last.named = "approved"
    /\ review.status = "approved"
    /\ Count(ledger, "approved") >= Threshold(Cardinality(group))

\* C2: N distinct supervisors voting concurrently with the same decision on a
\* pending review without votes, N the majority threshold: every interleaving
\* ends with the N votes in the ledger, and exactly one call makes the
\* transition from pending (the others return final_status pending).
C2_OneFinalization ==
    /\ [](AllIdle =>
            /\ Len(ledger) = Threshold(Cardinality(group))
            /\ Unique(ledger)
            /\ review.status \in DECISION_CHOICES
            /\ \A i \in DOMAIN ledger : ledger[i].decision = review.status)
    /\ [][\A r \in BagToSet(inflight) : VoteCommit(r) =>
            /\ last'.code = "ok"
            /\ Len(ledger') = Len(ledger) + 1
            /\ \A i \in DOMAIN ledger : ledger'[i] = ledger[i]
            /\ last'.final # "pending"
                 => (review.status = "pending" /\ review'.status = last'.final)
            /\ last'.final = "pending" => review' = review
         ]_vars

C2_Witness ==
    /\ AllIdle
    /\ Len(ledger) >= 2
    /\ review.status = "approved"
    /\ last.final = "approved"

\* C3: a review leaves pending for approved or rejected only with a majority of
\* votes for that decision in the ledger, or by the act of an arbiter.
C3_MajorityOrArbiter ==
    [][(review.status = "pending" /\ review'.status \in DECISION_CHOICES)
        => \/ Count(ledger', review'.status) >= Threshold(Cardinality(group))
           \/ is_superuser(review'.reviewed_by)
      ]_vars

\* C4: the status after a vote write is the reference function of the tally:
\* approved if a >= t, else rejected if r >= t, else conflict if a + r = N and
\* a = r, else pending.
RefStatus(a, r, n) ==
    IF a >= Threshold(n) THEN "approved"
    ELSE IF r >= Threshold(n) THEN "rejected"
    ELSE IF a + r = n /\ a = r THEN "conflict"
    ELSE "pending"

C4_StatusIsReference ==
    [][\A r \in BagToSet(inflight) :
        /\ VoteDecide(r) =>
             Decided(r).rv.status =
                RefStatus(Count(Visible(Decided(r)), "approved"),
                          Count(Visible(Decided(r)), "rejected"), Cardinality(group))
        /\ VoteCommit(r) =>
             (review'.status = r.rv.status /\ last'.named = review'.status)
      ]_vars

C4_Witness ==
    /\ last.op = "vote" /\ last.code = "ok" /\ last.final = "conflict"
    /\ review.status = "conflict"
    /\ Count(ledger, "approved") = Count(ledger, "rejected")
    /\ Count(ledger, "approved") + Count(ledger, "rejected") = Cardinality(group)

\* C5: a vote that finalizes the review records as reviewed_by the supervisor of
\* the most recent write, a revote included, among the votes for the outcome.
RECURSIVE MostRecentWriter(_, _, _)
MostRecentWriter(rows, order, d) ==
    IF order = <<>> THEN NoUser
    ELSE LET u == order[Len(order)]
         IN  IF \E i \in DOMAIN rows : rows[i].supervisor = u /\ rows[i].decision = d
             THEN u
             ELSE MostRecentWriter(rows, SubSeq(order, 1, Len(order) - 1), d)

C5_DecidedByLastWriter ==
    [][\A r \in BagToSet(inflight) :
        (VoteCommit(r) /\ r.final \in DECISION_CHOICES)
        => review'.reviewed_by = MostRecentWriter(ledger', writeOrder', r.final)
      ]_vars

\* C6: every vote entry point of a supervisor answers a review that is not
\* pending with InvalidState naming its status, and changes nothing.
C6_InvalidStateNamesStatus ==
    [][/\ \A r \in BagToSet(inflight) :
            (VoteLock(r) /\ review.status # "pending" /\ r.caller \in group)
            => /\ last'.code = "invalid_state" /\ last'.named = review.status
               /\ review' = review /\ ledger' = ledger
       /\ \A u \in Users, d \in DECISION_CHOICES, c \in CommentInputs :
            (ModerateStart(u, d, c) /\ review.status # "pending"
               /\ u \in group /\ active[u])
            => /\ last'.code = "invalid_state" /\ last'.named = review.status
               /\ review' = review /\ ledger' = ledger
      ]_vars

\* C7: a vote of a caller outside the supervisors group, or inactive, is
\* answered Forbidden and writes nothing.
C7_ForbiddenWritesNothing ==
    [][\A u \in Users :
        ~(u \in group /\ active[u]) =>
           \A d \in DecisionInputs, c \in CommentInputs :
              VoteStart(u, d, c)
              => /\ last'.op = "vote" /\ last'.code = "forbidden"
                 /\ inflight' = inflight
                 /\ review' = review /\ ledger' = ledger /\ writeOrder' = writeOrder
      ]_vars

C7_Witness ==
    /\ last.op = "vote" /\ last.code = "forbidden" /\ last.stage = "check"
    /\ AllIdle
    /\ ledger = <<>> /\ review = NewReview

\* C8: a caller whose supervisor role is gone when the call holds the review,
\* after the first check passed, is answered Forbidden; the call writes no vote
\* and finalizes nothing.
C8_RevokedBeforeLock ==
    [][\A r \in BagToSet(inflight) :
        (VoteLock(r) /\ r.caller \notin group)
        => /\ last'.op = "vote" /\ last'.code = "forbidden"
           /\ Returned(r) /\ lock' = lock
           /\ review' = review /\ ledger' = ledger /\ writeOrder' = writeOrder
      ]_vars

C8_Witness ==
    /\ last.op = "vote" /\ last.code = "forbidden" /\ last.stage = "locked"
    /\ calls >= 2
    /\ \E u \in Pool : u \notin group

\* C9: a caller whose account was deactivated after the first check is
\* answered Forbidden by the re-check under the lock, and writes no vote.
C9_DeactivatedBeforeLock ==
    [][\A r \in BagToSet(inflight) :
        (VoteLock(r) /\ ~active[r.caller])
        => /\ last'.op = "vote" /\ last'.code = "forbidden"
           /\ Returned(r)
           /\ review' = review /\ ledger' = ledger
      ]_vars

\* C10: the ledger holds at most one vote of a supervisor; a vote of a
\* supervisor who has one replaces its decision and comment, adds no entry and
\* touches no other entry.
C10_OneVotePerSupervisor ==
    /\ []Unique(ledger)
    /\ [][\A r \in BagToSet(inflight) : VoteCommit(r) =>
            LET u == r.caller
                i == Index(ledger, u)
            IN  /\ Index(ledger', u) # 0
                /\ ledger'[Index(ledger', u)].decision = r.decision
                /\ ledger'[Index(ledger', u)].comments = r.comments
                /\ Len(ledger') = IF i = 0 THEN Len(ledger) + 1 ELSE Len(ledger)
                /\ \A j \in DOMAIN ledger : j # i => ledger'[j] = ledger[j]
         ]_vars

C10_Witness ==
    /\ last.op = "vote" /\ last.code = "ok" /\ last.word = "updated"
    /\ Len(ledger) >= 2
    /\ Unique(ledger)

\* the tally of the review as a reader gets it
Tally == get_approval_summary(review.status, ledger, group)

\* C11: with an unchanged roster, a supervisor's second submission of the
\* decision the ledger already holds for them, on a review still pending,
\* leaves the approved, rejected and pending counts and the status as they
\* were; the vote is reported as updated, not as a new one.
C11_SameDecisionTwice ==
    [][\A r \in BagToSet(inflight) :
        (/\ r.pc = "vote_decided"
         /\ Index(ledger, r.caller) # 0
         /\ ledger[Index(ledger, r.caller)].decision = r.decision
         /\ VoteCommit(r))
        => /\ Tally' = Tally
           /\ review'.status = review.status
           /\ Len(ledger') = Len(ledger)
           /\ last'.code = "ok" /\ last'.word = "updated" /\ last'.final = "pending"
      ]_vars

C11_Witness ==
    \E r \in BagToSet(inflight) :
        /\ r.pc = "vote_decided" /\ r.tx = "update" /\ r.final = "pending"
        /\ Index(ledger, r.caller) # 0
        /\ ledger[Index(ledger, r.caller)].decision = r.decision
        /\ review.status = "pending"

\* C12: in every reachable state, also after supervisors left the roster while
\* their votes stay in the ledger, the tally has
\* pending = total_supervisors - approved - rejected and pending >= 0.
C12_PendingNeverNegative ==
    /\ Tally.pending = Tally.total_supervisors - Tally.approved - Tally.rejected
    /\ Tally.pending >= 0

\* C13: the tally of a review that is approved or rejected, by a vote majority,
\* an override or a conflict resolution, is all zeros whatever the ledger holds;
\* the tally of a review that is pending or in conflict has the live counts of
\* the ledger and the size of the roster.
Votes(d) == Cardinality({i \in DOMAIN ledger : ledger[i].decision = d})

C13_TallyShape ==
    IF review.status \in DECISION_CHOICES
    THEN Tally = [total_supervisors |-> 0, approved |-> 0, rejected |-> 0, pending |-> 0]
    ELSE /\ Tally.total_supervisors = Cardinality(group)
         /\ Tally.approved = Votes("approved")
         /\ Tally.rejected = Votes("rejected")
         /\ Tally.pending = Cardinality(group) - Votes("approved") - Votes("rejected")

C13_Witness ==
    /\ review.status = "approved" /\ review.admin_override
    /\ review.original_status = "conflict"
    /\ ledger # <<>>
    /\ Tally.approved = 0 /\ Tally.total_supervisors = 0

\* C14: when the author's edit of a review that was approved or rejected
\* completes, the review is pending, its ledger is empty and reviewed_by,
\* reviewed_at and rejection_reason are cleared, so that only votes cast after
\* the edit decide the next cycle.
C14_EditReopensClean ==
    [][\A r \in BagToSet(inflight) :
        (r.pc = "edit_save" /\ r.rv.status \in DECISION_CHOICES /\ EditSave(r))
        => /\ review'.status = "pending"
           /\ ledger' = <<>>
           /\ review'.reviewed_by = NoUser /\ review'.reviewed_at = FALSE
           /\ review'.rejection_reason = ""
      ]_vars

\* C15: every step that takes the review from approved, rejected or conflict
\* back to pending (edit, override to pending, admin reset) leaves an empty
\* ledger and reviewed_by, reviewed_at and rejection_reason cleared.
C15_ReopenClears ==
    [][(review.status \in {"approved", "rejected", "conflict"} /\ review'.status = "pending")
        => /\ ledger' = <<>>
           /\ review'.reviewed_by = NoUser /\ review'.reviewed_at = FALSE
           /\ review'.rejection_reason = ""
      ]_vars

\* C16: the review is destroyed only by its author and only while its status
\* is pending at the moment the row is deleted, whatever runs concurrently.
C16_DeleteOnlyPending ==
    [][\A r \in BagToSet(inflight) :
        (r.pc = "del_exec" /\ DeleteExec(r))
        => r.caller = Author /\ review.status = "pending"
      ]_vars

\* C17: an override by the superuser is accepted whatever the current status
\* and sets the status to the requested one of approved, rejected, pending; an
\* override by a caller who is not a superuser (a supervisor included) is
\* answered Forbidden and one with another target status is answered with a
\* validation error, both leaving the review and the ledger as they were.
C17_Override ==
    [][/\ \A ns \in OVERRIDE_CHOICES \cup {"conflict"}, c \in CommentInputs :
            /\ \A u \in Pool :
                  OverrideStart(u, ns, c)
                  => /\ last'.code = "forbidden"
                     /\ UNCHANGED <<review, ledger, inflight, lock>>
            /\ OverrideStart(Admin, ns, c)
               => /\ UNCHANGED <<review, ledger, lock>>
                  /\ IF ns \in OVERRIDE_CHOICES
                     THEN last' = NoResult /\ inflight' # inflight
                     ELSE last'.code = "bad_request" /\ inflight' = inflight
       /\ \A r \in BagToSet(inflight) :
            /\ (r.pc = "ovr_wait" /\ review.status \in STATUS_CHOICES /\ OverrideLock(r))
               => /\ is_superuser(r.caller)
                  /\ last' = NoResult /\ lock'
                  /\ UNCHANGED <<review, ledger>>
            /\ (r.pc = "ovr_locked" /\ OverrideCommit(r))
               => /\ is_superuser(r.caller)
                  /\ last'.code = "ok"
                  /\ review'.status = r.decision
      ]_vars

\* a review in conflict that the superuser has just set back to pending
C17_Witness ==
    /\ last.op = "override" /\ last.code = "ok"
    /\ review.status = "pending"
    /\ review.admin_override /\ review.original_status = "conflict"

\* C18: an override to approved or rejected stamps reviewed_by with the
\* superuser who made it and sets reviewed_at, keeps the ledger, and records
\* in the override marker the status the review had just before; an override
\* to pending empties the ledger and clears reviewed_by and reviewed_at.
C18_OverrideEffects ==
    [][\A r \in BagToSet(inflight) :
        (r.pc = "ovr_locked" /\ OverrideCommit(r))
        => /\ review'.admin_override
           /\ review'.original_status = review.status
           /\ IF r.decision = "pending"
              THEN /\ ledger' = <<>>
                   /\ review'.reviewed_by = NoUser
                   /\ review'.reviewed_at = FALSE
              ELSE /\ ledger' = ledger
                   /\ review'.reviewed_by = r.caller
                   /\ review'.reviewed_at = TRUE
      ]_vars

\* a split vote overridden to rejected: the votes are still there
C18_Witness ==
    /\ last.op = "override" /\ last.code = "ok"
    /\ review.status = "rejected" /\ review.reviewed_by = Admin
    /\ review.original_status = "conflict"
    /\ Votes("approved") = 1 /\ Votes("rejected") = 1

\* C19: resolve_conflict goes through only if the status read under the row
\* lock is conflict, and then sets the status to the superuser's decision and
\* reviewed_by to that superuser; on a pending, approved or rejected review it
\* is answered with an invalid-state error, and a caller who is not a
\* superuser is answered Forbidden; neither changes the review or the ledger.
C19_ResolveConflict ==
    [][/\ \A u \in Pool, d \in DecisionInputs, c \in CommentInputs :
            ResolveStart(u, d, c)
            => /\ last'.code = "forbidden"
               /\ UNCHANGED <<review, ledger, inflight, lock>>
       /\ \A r \in BagToSet(inflight) :
            /\ (r.pc = "res_wait" /\ review.status \in STATUS_CHOICES /\ ResolveLock(r))
               => /\ is_superuser(r.caller)
                  /\ UNCHANGED <<review, ledger>>
                  /\ IF review.status = "conflict"
                     THEN last' = NoResult /\ lock'
                     ELSE /\ last'.code = "invalid_state"
                          /\ last'.named = review.status
                          /\ UNCHANGED lock
            /\ (r.pc = "res_locked" /\ ResolveCommit(r))
               => /\ review.status = "conflict"
                  /\ is_superuser(r.caller)
                  /\ r.decision \in DECISION_CHOICES
                  /\ review'.status = r.decision
                  /\ review'.reviewed_by = r.caller
                  /\ last'.code = "ok"
      ]_vars

\* a split vote that the superuser has just resolved to approved
C19_Witness ==
    /\ last.op = "resolve" /\ last.code = "ok"
    /\ review.status = "approved" /\ review.reviewed_by = Admin
    /\ ~review.admin_override

Entries(rows) == {<<rows[i].supervisor, rows[i].decision>> : i \in DOMAIN rows}

\* C20: a successful resolve_conflict leaves the ledger as it was: the same
\* (supervisor, decision) entries before and after, the split vote included.
C20_ResolveKeepsLedger ==
    [][\A r \in BagToSet(inflight) :
        (r.pc = "res_locked" /\ ResolveCommit(r))
        => /\ Entries(ledger') = Entries(ledger)
           /\ Len(ledger') = Len(ledger)
      ]_vars

\* a split vote resolved to rejected with both votes still in the ledger
C20_Witness ==
    /\ last.op = "resolve" /\ last.code = "ok"
    /\ review.status = "rejected"
    /\ Entries(ledger) = {<<1, "approved">>, <<2, "rejected">>}

\* C21: when update_average_rating fails in a vote that reaches the majority
\* of approvals, or in an override to approved, the decision stands: the vote
\* is in the ledger, the status is approved and the caller gets a success.
C21_RatingFailureKeepsDecision ==
    [][\A r \in BagToSet(inflight) :
        /\ (r.pc = "vote_decided" /\ VoteRollback(r))
           => /\ review'.status = "approved"
              /\ Index(ledger', r.caller) # 0
              /\ last'.code = "ok"
        /\ (r.pc = "ovr_locked" /\ OverrideRollback(r))
           => /\ review'.status = "approved"
              /\ last'.code = "ok"
      ]_vars

\* C22: update_average_rating is called only by a vote that approves the
\* review and by an override to approved, once each time; conflict
\* resolution, single-supervisor moderation, rejection and reopening never
\* call it.
C22_RatingCalledAtTwoPoints ==
    [][/\ last'.rating # "none"
          => /\ last'.op \in {"vote", "override"}
             /\ review'.status = "approved" \/ last'.rating = "raised"
       /\ (last'.op \in {"vote", "override"} /\ last'.code = "ok"
           /\ review.status # "approved" /\ review'.status = "approved")
          => last'.rating = "updated"
      ]_vars

\* C23: a vote is all or nothing for everyone else: the step that makes the
\* vote row visible also makes visible the status evaluated against the
\* ledger with that row, no other step of a vote changes the review or the
\* ledger, and a vote that returns an error has written nothing.
C23_VoteAllOrNothing ==
    [][\A r \in BagToSet(inflight) :
        r.op = "vote"
        => /\ VoteCommit(r)
              => LET w == update_or_create(ledger, r.caller, r.decision, r.comments)
                     f == check_and_finalize_status(review, w.rows, group)
                 IN  /\ ledger' = w.rows
                     /\ review' = IF f.final # "pending" THEN f.review ELSE review
                     /\ last'.final = f.final
           /\ (VoteLock(r) \/ VoteDecide(r) \/ VoteRollback(r))
              => UNCHANGED <<review, ledger>>
           /\ ((VoteLock(r) \/ VoteRollback(r)) /\ last'.code # "none")
              => last'.code \in {"forbidden", "invalid_state", "not_found", "error"}
      ]_vars

\* a vote that had reached the majority and was rolled back
C23_Witness ==
    /\ last.op = "vote" /\ last.code = "error" /\ last.rating = "raised"
    /\ review.status = "pending"
    /\ ledger = <<>>
    /\ ~lock

\* the requests that hold the row lock of the review
Holders == {r \in BagToSet(inflight) : r.pc \in {"vote_locked", "vote_decided",
                                                  "ovr_locked", "res_locked"}}

\* C24: the locked handlers are serialized in the order in which they take
\* the row lock: one request at most is between its locked read and its
\* commit, nothing else changes the review or the ledger meanwhile, and its
\* commit writes what the handler run alone would have written on the state
\* it found; a vote that takes the lock after an override to approved or
\* rejected has committed is refused and changes nothing.
C24_SerialInLockOrder ==
    [][/\ lock = (Holders # {})
       /\ \A r \in Holders : inflight[r] = 1 /\ Holders = {r}
       /\ (lock /\ lock') => UNCHANGED <<review, ledger>>
       /\ \A r \in BagToSet(inflight) :
            /\ (r.pc = "vote_decided" /\ VoteCommit(r))
               => LET w == update_or_create(ledger, r.caller, r.decision, r.comments)
                      f == check_and_finalize_status(review, w.rows, group)
                  IN  /\ ledger' = w.rows
                      /\ review' = IF f.final # "pending" THEN f.review ELSE review
            /\ (r.pc = "ovr_locked" /\ OverrideCommit(r))
               => /\ review' = override_fields(review, r.caller, r.decision, r.comments)
                  /\ ledger' = IF r.decision = "pending" THEN <<>> ELSE ledger
            /\ (r.pc = "res_locked" /\ ResolveCommit(r))
               => /\ review.status = "conflict"
                  /\ review' = resolve_fields(review, r.caller, r.decision, r.comments)
                  /\ ledger' = ledger
            /\ (r.pc = "vote_wait" /\ review.admin_override
                /\ review.status \in DECISION_CHOICES /\ VoteLock(r))
               => /\ last'.code = "invalid_state"
                  /\ UNCHANGED <<review, ledger>>
      ]_vars

\* a vote refused after an override to rejected, its caller's earlier vote
\* still in the ledger
C24_Witness ==
    /\ last.op = "vote" /\ last.code = "invalid_state" /\ last.named = "rejected"
    /\ review.admin_override /\ review.status = "rejected"
    /\ ledger # <<>>

\* C25: rejection_reason is non-empty only on a rejected review; a review
\* that is pending, approved or in conflict carries none.
C25_ReasonOnlyWhenRejected ==
    (review.status \in STATUS_CHOICES /\ review.rejection_reason # "")
    => review.status = "rejected"

\* the users who are active and hold the supervisor role
Roster == {u \in group : active[u]}

\* C26: the roster size of a tally is the number of users who are active and
\* in the supervisors group; an inactive member of the group is not counted.
C26_RosterCountsActiveOnly ==
    review.status \in {"pending", "conflict"}
    => Tally.total_supervisors = Cardinality(Roster)

\* C27: no vote of a supervisor and no edit by the author takes a review out
\* of conflict, whatever else runs at the same time; only resolve_conflict
\* and the override do.
C27_ConflictLeftByArbiterOnly ==
    [][(review.status = "conflict" /\ review'.status # "conflict")
        => last'.op \notin {"vote", "edit"}
      ]_vars

\* C28: a promotion or a revocation changes the group and nothing else: the
\* review, its ledger and the requests in progress are as before; with votes
\* and roster changes only, a review that is approved, rejected or in
\* conflict keeps its status and a pending review changes status only in the
\* commit of a vote.
C28_RosterChangeFrame ==
    [][/\ group' # group
          => UNCHANGED <<review, ledger, writeOrder, lock, inflight>>
       /\ review'.status # review.status
          => /\ review.status = "pending"
             /\ last'.op = "vote" /\ last'.code = "ok"
             /\ last'.final = review'.status
      ]_vars

\* one approval of two supervisors, then the other supervisor revoked: the
\* approval is now a majority and the review is still pending
C28_Witness ==
    /\ review.status = "pending"
    /\ Count(ledger, "approved") >= Threshold(Cardinality(group))
    /\ inflight = EmptyBag
    /\ last = NoResult

\* C29: a failure of the conflict notification (no recipient group, a mail
\* error) does not fail the vote that produced the tie: the vote is in the
\* ledger, the status is conflict and the caller gets the normal success.
C29_NotifyFailureSwallowed ==
    [][\A r \in BagToSet(inflight) :
        (r.pc = "vote_decided" /\ r.final = "conflict" /\ VoteCommit(r))
        => /\ last'.code = "ok" /\ last'.final = "conflict"
           /\ last'.notify \in {"sent", "logged"}
           /\ review'.status = "conflict"
           /\ Index(ledger', r.caller) # 0
           /\ ledger'[Index(ledger', r.caller)].decision = r.decision
           /\ ~lock'
      ]_vars

\* a tie whose notification failed
C29_Witness ==
    /\ last.op = "vote" /\ last.code = "ok" /\ last.notify = "logged"
    /\ review.status = "conflict"
    /\ Count(ledger, "approved") = Count(ledger, "rejected")
    /\ Len(ledger) = Cardinality(group)

C31_RequiredApprovals ==
    review.status \in STATUS_CHOICES
    => get_required_approvals(review.status, ledger, group)
           = (Cardinality(group) \div 2) + 1

\* C32: with the roster unchanged and no request in progress, a pending
\* review has fewer than floor(N/2)+1 approving and fewer than floor(N/2)+1
\* rejecting votes in its ledger, whatever edits, resets and votes came
\* before.
C32_PendingHasNoMajority ==
    (AllIdle /\ review.status = "pending")
    => /\ Count(ledger, "approved") < Threshold(Cardinality(group))
       /\ Count(ledger, "rejected") < Threshold(Cardinality(group))

\* C33: a vote that finalizes the review as approved leaves strictly more
\* approving than rejecting votes in the ledger, and one that finalizes it as
\* rejected strictly more rejecting than approving ones, also when
\* supervisors were revoked between votes and their votes stayed.
C33_StrictMajorityOfVotes ==
    [][(last'.op = "vote" /\ last'.code = "ok")
        => /\ last'.final = "approved"
              => Count(ledger', "approved") > Count(ledger', "rejected")
           /\ last'.final = "rejected"
              => Count(ledger', "rejected") > Count(ledger', "approved")
      ]_vars

\* every user who is able to vote has a vote in the ledger
EveryEligibleVoted == Roster # {} /\ \A u \in Roster : Index(ledger, u) # 0

\* C34: with the roster unchanged, a pending review on which every active
\* member of the supervisors group has voted does not stay pending: it
\* becomes approved, rejected or conflict.
C34_AllVotedLeavesPending ==
    (review.status = "pending" /\ EveryEligibleVoted /\ AllIdle)
        ~> (review.status # "pending")

\* C35: in every state between operations a review in status conflict has
\* as many approving as rejecting votes in its ledger.
C35_ConflictIsATie ==
    (AllIdle /\ review.status = "conflict")
    => Count(ledger, "approved") = Count(ledger, "rejected")

\* C36: between operations the stored rating count of the app equals the
\* number of its reviews whose status is approved.
C36_RatingCountMatchesApproved ==
    AllIdle => total_ratings = get_approved_reviews_count(review)

\* C37: when an edit of the review by its author has succeeded, the ledger
\* holds no vote: every vote written before the edit is gone.
C37_EditDropsVotes ==
    [][(last'.op = "edit" /\ last'.code = "ok") => ledger' = <<>>]_vars

\* C38: a review in approved or rejected has reviewed_by and reviewed_at
\* set, and a review in pending has both of them cleared.
C38_DecidedFieldsMatchStatus ==
    /\ review.status \in DECISION_CHOICES
       => review.reviewed_by # NoUser /\ review.reviewed_at
    /\ review.status = "pending"
       => review.reviewed_by = NoUser /\ ~review.reviewed_at

====
